---- MODULE Spec2Model ----
(***************************************************************************)
(* Model of rufus.scraper.WebScraper: the crawl-and-score engine           *)
(* (crawl_with_score_criteria), its URL normaliser, validity check, link   *)
(* extraction and relevance scorer, and of the caller of the crawl,        *)
(* RufusClient.scrape_with_cumulative_score.  URLs and page texts are real *)
(* strings; the renderer (Playwright context/page) is the environment:     *)
(* every call on it draws its outcome from a small set.                    *)
(*                                                                         *)
(* Specifications: Spec (one crawl), SiteSpec (one crawl of a fixed site), *)
(* TwiceSpec (two crawls in a row on one WebScraper), SharedSpec (a second *)
(* crawl starting on the same WebScraper meanwhile), ClientSpec (the       *)
(* client around one crawl), NormalizeSpec and ScoreSpec (_normalize_url   *)
(* and _check_relevance called on their own), ContentSpec (one crawl whose *)
(* scores are computed from the page texts).                               *)
(***************************************************************************)
EXTENDS Integers, Sequences, FiniteSets, TLC

VARIABLES
    pc,                 \* "idle" | "loop" | "returned" | "raised"
    base_domain,        \* self.base_domain
    base_url,           \* self.base_url
    max_depth,          \* argument of crawl_with_score_criteria
    min_score,          \* argument
    cumulative_score_threshold, \* argument
    visited,            \* local: set of URL strings
    queue,              \* local: list of <<url, depth>>
    collected_pages,    \* local: list of page_data records
    stop_crawling,      \* local flag
    cumulative_score,   \* local integer
    page,               \* local `page`: 0 = unbound, k = k-th page opened
    closes,             \* history: page ids page.close() was called on, in order
    rendered,           \* history: URLs page.goto() was called with, in order
    outcome,            \* history: how the last loop iteration ended
    discovered,         \* history: page_data records in append order
    answers,            \* the renderer's answer for each URL it was asked for
    runs,               \* history: the calls of crawl_with_score_criteria
    client_pc,          \* position in RufusClient.scrape_with_cumulative_score
    browser,            \* the browser launched there: "none" | "open" | "closed"
    client_result,      \* how scrape_with_cumulative_score ended
    probe,              \* the last call of a pure method: arguments and result
    self_keywords,      \* self.keywords
    contents            \* history: the content of each record, in append order

crawl_vars == <<pc, base_domain, base_url, max_depth, min_score,
                cumulative_score_threshold, visited, queue, collected_pages,
                stop_crawling, cumulative_score, page, closes, rendered, outcome,
                discovered>>

\* what only the specifications of repeated calls use
call_vars == <<answers, runs>>

\* what only the specification of the client uses
client_vars == <<client_pc, browser, client_result>>

\* what only the specification of the crawl with scored texts uses
text_vars == <<self_keywords, contents>>

vars == <<crawl_vars, call_vars, client_vars, probe, text_vars>>

----------------------------------------------------------------------------
(* Bounds of the explored inputs *)

\* a[href] elements on one page
MaxLinks == 2
\* page loads the renderer serves in one crawl
MaxRenders == 3

\* start_url values handed to the crawl: an http origin, an origin of
\* another scheme, and a string that normalises to ""
Seeds == {"http://a.com/", "ftp://a.com/", "#"}

\* raw href attributes found on rendered pages
Hrefs == {"/", "x", "#top", "http://b.com/"}

\* values of max_depth, min_score, cumulative_score_threshold and of the
\* score _check_relevance gives a page
Depths == {-1, 0, 1, 2}
MinScores == {0, 1}
Thresholds == {0, 2}
Scores == {0, 1}

RECURSIVE SeqsUpTo(_, _)
SeqsUpTo(S, n) ==
    IF n = 0 THEN {<<>>}
    ELSE LET shorter == SeqsUpTo(S, n - 1)
         IN  shorter \cup {Append(s, x) : s \in shorter, x \in S}

HrefSeqs == SeqsUpTo(Hrefs, MaxLinks)

----------------------------------------------------------------------------
(* Python str helpers *)

StartsWith(s, p) == Len(s) >= Len(p) /\ SubSeq(s, 1, Len(p)) = p

StartsWithAny(s, ps) == \E p \in ps : StartsWith(s, p)

\* `sub in s`
Contains(s, sub) ==
    \E i \in 1 .. (Len(s) - Len(sub) + 1) : SubSeq(s, i, i + Len(sub) - 1) = sub

\* s.find(sub) + 1; 0 when absent
Find(s, sub) ==
    IF Contains(s, sub)
    THEN CHOOSE i \in 1 .. (Len(s) - Len(sub) + 1) :
            /\ SubSeq(s, i, i + Len(sub) - 1) = sub
            /\ \A j \in 1 .. (i - 1) : SubSeq(s, j, j + Len(sub) - 1) # sub
    ELSE 0

\* s.split(sep, 1)[0]
Before(s, sep) == IF Contains(s, sep) THEN SubSeq(s, 1, Find(s, sep) - 1) ELSE s

\* s.split(sep, 1)[1], for s containing sep
After(s, sep) == SubSeq(s, Find(s, sep) + Len(sep), Len(s))

LowerChar(c) ==
    CASE c = "A" -> "a" [] c = "B" -> "b" [] c = "C" -> "c" [] c = "D" -> "d"
      [] c = "E" -> "e" [] c = "F" -> "f" [] c = "G" -> "g" [] c = "H" -> "h"
      [] c = "I" -> "i" [] c = "J" -> "j" [] c = "K" -> "k" [] c = "L" -> "l"
      [] c = "M" -> "m" [] c = "N" -> "n" [] c = "O" -> "o" [] c = "P" -> "p"
      [] c = "Q" -> "q" [] c = "R" -> "r" [] c = "S" -> "s" [] c = "T" -> "t"
      [] c = "U" -> "u" [] c = "V" -> "v" [] c = "W" -> "w" [] c = "X" -> "x"
      [] c = "Y" -> "y" [] c = "Z" -> "z" [] OTHER -> c

\* s.lower(), one half after the other
RECURSIVE Lower(_)
Lower(s) ==
    IF Len(s) <= 1 THEN LowerChar(s)
    ELSE LET half == Len(s) \div 2
         IN  Lower(SubSeq(s, 1, half)) \o Lower(SubSeq(s, half + 1, Len(s)))

RECURSIVE Repeat(_, _)
Repeat(s, n) == IF n = 0 THEN "" ELSE s \o Repeat(s, n - 1)

----------------------------------------------------------------------------
(* urllib.parse.urlparse, as far as lines 31-35 use it: scheme and netloc *)

SchemeChars ==
    {"a", "b", "c", "d", "e", "f", "g", "h", "i", "j", "k", "l", "m",
     "n", "o", "p", "q", "r", "s", "t", "u", "v", "w", "x", "y", "z",
     "0", "1", "2", "3", "4", "5", "6", "7", "8", "9", "+", "-", "."}

Letters == SchemeChars \ {"0", "1", "2", "3", "4", "5", "6", "7", "8", "9", "+", "-", "."}

\* TRUE when url[:url.find(':')] is a scheme
HasScheme(url) ==
    LET i == Find(url, ":")
    IN  /\ i > 1
        /\ Lower(SubSeq(url, 1, 1)) \in Letters
        /\ \A k \in 1 .. (i - 1) : Lower(SubSeq(url, k, k)) \in SchemeChars

UrlScheme(url) == IF HasScheme(url) THEN Lower(Before(url, ":")) ELSE ""

\* the text from the first of "/", "?", "#" on is cut off
RECURSIVE UpToDelimiter(_)
UpToDelimiter(s) ==
    IF s = "" \/ SubSeq(s, 1, 1) \in {"/", "?", "#"} THEN ""
    ELSE SubSeq(s, 1, 1) \o UpToDelimiter(SubSeq(s, 2, Len(s)))

UrlNetloc(url) ==
    LET rest == IF HasScheme(url) THEN After(url, ":") ELSE url
    IN  IF StartsWith(rest, "//") THEN UpToDelimiter(SubSeq(rest, 3, Len(rest)))
        ELSE ""

----------------------------------------------------------------------------
(* Origin context, lines 31-43 *)

BaseDomain(start_url) ==
    IF UrlNetloc(start_url) # "" THEN UrlNetloc(start_url)
    ELSE IF Contains(start_url, "://") THEN Before(After(start_url, "://"), "/")
    ELSE Before(start_url, "/")

BaseUrl(start_url) ==
    IF UrlNetloc(start_url) # ""
    THEN UrlScheme(start_url) \o "://" \o UrlNetloc(start_url)
    ELSE IF Contains(start_url, "://")
    THEN Before(start_url, "/") \o "//" \o BaseDomain(start_url)
    ELSE "https://" \o BaseDomain(start_url)

----------------------------------------------------------------------------
(* _normalize_url, lines 166-187 *)

\* a normaliser that tests the single "/" before the "//"
NormalizeUrl_SlashFirst(url, base) ==
    IF url = "" THEN ""
    ELSE IF StartsWithAny(url, {"javascript:", "mailto:", "tel:", "#"}) THEN ""
    ELSE IF ~StartsWithAny(url, {"http://", "https://"})
    THEN IF StartsWith(url, "/") THEN base \o url
         ELSE IF StartsWith(url, "//") THEN "https:" \o url
         ELSE base \o "/" \o url
    ELSE url

NormalizeUrl(url, base) ==
    IF url = "" THEN ""
    ELSE IF StartsWithAny(url, {"javascript:", "mailto:", "tel:", "#"}) THEN ""
    ELSE IF ~StartsWithAny(url, {"http://", "https://"})
    THEN IF StartsWith(url, "//") THEN "https:" \o url
         ELSE IF StartsWith(url, "/") THEN base \o url
         ELSE base \o "/" \o url
    ELSE url

----------------------------------------------------------------------------
(* _extract_links, lines 239-257.  The page's a[href] elements are the     *)
(* input: either the query raises, or it yields hrefs in document order.   *)

LinkInputs ==
    {[raises |-> TRUE, hrefs |-> <<>>]}
        \cup {[raises |-> FALSE, hrefs |-> h] : h \in HrefSeqs}

InSeq(x, s) == \E i \in 1 .. Len(s) : s[i] = x

RECURSIVE CollectLinks(_, _, _)
CollectLinks(hrefs, base, all_links) ==
    IF hrefs = <<>> THEN all_links
    ELSE LET href == Head(hrefs)
             normalized_url == NormalizeUrl(href, base)
         IN  IF href = "" THEN CollectLinks(Tail(hrefs), base, all_links)
             ELSE IF normalized_url # "" /\ ~InSeq(normalized_url, all_links)
             THEN CollectLinks(Tail(hrefs), base, Append(all_links, normalized_url))
             ELSE CollectLinks(Tail(hrefs), base, all_links)

ExtractLinks(in, base) ==
    IF in.raises THEN <<>> ELSE CollectLinks(in.hrefs, base, <<>>)

----------------------------------------------------------------------------
(* _is_valid_page, lines 137-157.  A rendered document is the input:       *)
(* whether it has a body, whether a DOM call raises, and the body's        *)
(* innerText.                                                              *)

error_phrases ==
    {"404", "not found", "access denied", "forbidden", "error", "unavailable", "sorry"}

LongErrorText == Repeat("Error page ", 10)

Statuses == {"", "Welcome", "404 Not Found", LongErrorText}

Docs ==
    {[body |-> FALSE, raises |-> FALSE, status |-> ""],
     [body |-> TRUE, raises |-> TRUE, status |-> ""]}
        \cup {[body |-> TRUE, raises |-> FALSE, status |-> s] : s \in Statuses}

IsValidPage(doc) ==
    IF doc.raises THEN FALSE
    ELSE IF ~doc.body THEN FALSE
    ELSE IF /\ doc.status # ""
            /\ Len(doc.status) < 100
            /\ \E phrase \in error_phrases : Contains(Lower(doc.status), phrase)
    THEN FALSE
    ELSE TRUE

----------------------------------------------------------------------------
(* _get_page_title, lines 159-164.  One page title is explored; a raising  *)
(* page.title() would give the other constant, "Unknown Title".            *)

TitleInputs == {[raises |-> FALSE, title |-> "Home"]}

GetPageTitle(in) == IF in.raises THEN "Unknown Title" ELSE in.title

----------------------------------------------------------------------------
(* collected_pages.sort(key=relevance_score, reverse=True), line 134:      *)
(* list.sort is stable, and reverse=True keeps equal keys in list order.   *)

RECURSIVE InsertByScore(_, _)
InsertByScore(sorted, p) ==
    IF sorted = <<>> THEN <<p>>
    ELSE IF Head(sorted).relevance_score >= p.relevance_score
    THEN <<Head(sorted)>> \o InsertByScore(Tail(sorted), p)
    ELSE <<p>> \o sorted

RECURSIVE SortedInto(_, _)
SortedInto(sorted, pages) ==
    IF pages = <<>> THEN sorted
    ELSE SortedInto(InsertByScore(sorted, Head(pages)), Tail(pages))

RECURSIVE InsertTiesFirst(_, _)
InsertTiesFirst(sorted, p) ==
    IF sorted = <<>> THEN <<p>>
    ELSE IF Head(sorted).relevance_score > p.relevance_score
    THEN <<Head(sorted)>> \o InsertTiesFirst(Tail(sorted), p)
    ELSE <<p>> \o sorted

RECURSIVE SortByScore_TiesReversed(_)
SortByScore_TiesReversed(pages) ==
    IF pages = <<>> THEN <<>>
    ELSE InsertTiesFirst(SortByScore_TiesReversed(SubSeq(pages, 1, Len(pages) - 1)),
                         pages[Len(pages)])

SortByScore(pages) == SortedInto(<<>>, pages)

----------------------------------------------------------------------------
(* Conditions of the crawl loop, lines 54-124 *)

LoopCondition_NoStop(q, stop) == q # <<>>

\* line 54: while queue and not stop_crawling
LoopCondition(q, stop) == q # <<>> /\ ~stop

\* line 58: if current_url in visited
AlreadyVisited(url, seen) == url \in seen

TooDeep_OffByOne(depth, limit) == depth > limit + 1

\* line 61: if depth > max_depth
TooDeep(depth, limit) == depth > limit

Collects_OffByOne(valid, relevance_score, floor) ==
    valid /\ relevance_score + 1 >= floor

\* lines 78, 88: a valid page with relevance_score >= min_score is collected
Collects(valid, relevance_score, floor) == valid /\ relevance_score >= floor

Accumulate_Overwrite(total, relevance_score) == relevance_score

\* line 99: cumulative_score += relevance_score
Accumulate(total, relevance_score) == total + relevance_score

ThresholdReached_Strict(total, threshold) == total > threshold

\* line 104: if cumulative_score >= cumulative_score_threshold
ThresholdReached(total, threshold) == total >= threshold

\* an expansion that also takes place at the depth limit
Expands_AtLimit(valid, depth, limit, stop) == valid /\ depth <= limit /\ ~stop

Expands_AnyPage(valid, depth, limit, stop) == depth < limit /\ ~stop

\* lines 78, 109: a valid page, depth < max_depth and not stop_crawling
Expands(valid, depth, limit, stop) == valid /\ depth < limit /\ ~stop

\* a filter that does not look at the visited set
Keep_AlsoVisited(links, seen, domain, same) ==
    SelectSeq(links, LAMBDA link : Contains(link, domain) <=> same)

\* lines 112-124: links not visited, same-domain ones first, at depth + 1
RECURSIVE Keep(_, _, _, _)
Keep(links, seen, domain, same) ==
    IF links = <<>> THEN <<>>
    ELSE LET link == Head(links)
             rest == Keep(Tail(links), seen, domain, same)
         IN  IF link \notin seen /\ (Contains(link, domain) <=> same)
             THEN <<link>> \o rest
             ELSE rest

AtDepth(links, depth) == [i \in 1 .. Len(links) |-> <<links[i], depth>>]

\* the other links queued ahead of the same-domain ones
NewEntries_ExternalFirst(links, seen, domain, depth) ==
    AtDepth(Keep(links, seen, domain, FALSE), depth + 1)
        \o AtDepth(Keep(links, seen, domain, TRUE), depth + 1)

NewEntries(links, seen, domain, depth) ==
    AtDepth(Keep(links, seen, domain, TRUE), depth + 1)
        \o AtDepth(Keep(links, seen, domain, FALSE), depth + 1)

----------------------------------------------------------------------------
(* State after WebScraper.__init__, lines 17-20.  The locals and arguments *)
(* of crawl_with_score_criteria do not exist yet; they hold empty values.  *)

Constructed ==
    /\ pc = "idle"
    /\ base_domain = ""
    /\ base_url = ""
    /\ max_depth = 0
    /\ min_score = 0
    /\ cumulative_score_threshold = 0
    /\ visited = {}
    /\ queue = <<>>
    /\ collected_pages = <<>>
    /\ stop_crawling = FALSE
    /\ cumulative_score = 0
    /\ page = 0
    /\ closes = <<>>
    /\ rendered = <<>>
    /\ outcome = [kind |-> "none"]
    /\ discovered = <<>>
    /\ answers = <<>>
    /\ runs = <<>>
    /\ client_pc = "idle"
    /\ browser = "none"
    /\ client_result = [kind |-> "none"]

Init ==
    /\ Constructed
    /\ probe = [method |-> "none"]
    /\ self_keywords = <<>>
    /\ contents = <<>>

config == <<base_domain, base_url, max_depth, min_score, cumulative_score_threshold>>
results == <<collected_pages, cumulative_score, stop_crawling, discovered>>

\* a crawl whose visited set outlives the call
Crawl_KeepsVisited(start_url, depth_limit, floor, threshold) ==
    /\ pc = "idle"
    /\ base_domain' = BaseDomain(start_url)
    /\ base_url' = BaseUrl(start_url)
    /\ max_depth' = depth_limit
    /\ min_score' = floor
    /\ cumulative_score_threshold' = threshold
    /\ queue' = << <<start_url, 0>> >>
    /\ collected_pages' = <<>>
    /\ stop_crawling' = FALSE
    /\ cumulative_score' = 0
    /\ pc' = "loop"
    /\ UNCHANGED <<visited, page, closes, rendered, outcome, discovered>>

\* lines 22-52: entry of crawl_with_score_criteria
Crawl(start_url, depth_limit, floor, threshold) ==
    /\ pc = "idle"
    /\ base_domain' = BaseDomain(start_url)
    /\ base_url' = BaseUrl(start_url)
    /\ max_depth' = depth_limit
    /\ min_score' = floor
    /\ cumulative_score_threshold' = threshold
    /\ visited' = {}
    /\ queue' = << <<start_url, 0>> >>
    /\ collected_pages' = <<>>
    /\ stop_crawling' = FALSE
    /\ cumulative_score' = 0
    /\ pc' = "loop"
    /\ UNCHANGED <<page, closes, rendered, outcome, discovered>>

current_url == queue[1][1]
depth == queue[1][2]
normalized_url == NormalizeUrl(current_url, base_url)

Running == pc = "loop" /\ LoopCondition(queue, stop_crawling)

\* lines 55-59: popped, already visited
SkipVisited ==
    /\ Running
    /\ AlreadyVisited(current_url, visited)
    /\ queue' = Tail(queue)
    /\ outcome' = [kind |-> "skipped_visited"]
    /\ UNCHANGED <<pc, config, visited, results, page, closes, rendered>>

\* lines 55-62: popped, too deep
SkipDepth ==
    /\ Running
    /\ ~AlreadyVisited(current_url, visited)
    /\ TooDeep(depth, max_depth)
    /\ queue' = Tail(queue)
    /\ outcome' = [kind |-> "skipped_depth"]
    /\ UNCHANGED <<pc, config, visited, results, page, closes, rendered>>

\* lines 55-68: popped, normalisation gives ""
SkipInvalidUrl ==
    /\ Running
    /\ ~AlreadyVisited(current_url, visited)
    /\ ~TooDeep(depth, max_depth)
    /\ normalized_url = ""
    /\ queue' = Tail(queue)
    /\ outcome' = [kind |-> "skipped_url"]
    /\ UNCHANGED <<pc, config, visited, results, page, closes, rendered>>

\* lines 55-70: the target reaches the try block
Reached ==
    /\ Running
    /\ ~AlreadyVisited(current_url, visited)
    /\ ~TooDeep(depth, max_depth)
    /\ normalized_url # ""

\* lines 70-73, 126-129: context.new_page() raises.  `page` keeps what it
\* held: unbound in the first such iteration, so that page.close() in the
\* finally block raises UnboundLocalError out of the function; otherwise the
\* previous iteration's page, which is closed once more.
NewPageFails ==
    /\ Reached
    /\ visited' = visited \cup {normalized_url}
    /\ queue' = Tail(queue)
    /\ outcome' = [kind |-> "new_page_failed"]
    /\ IF page = 0
       THEN pc' = "raised" /\ closes' = closes
       ELSE pc' = "loop" /\ closes' = Append(closes, page)
    /\ UNCHANGED <<config, results, page, rendered>>

\* lines 70-75, 126-129: page.goto() raises
GotoFails ==
    /\ Reached
    /\ visited' = visited \cup {normalized_url}
    /\ queue' = Tail(queue)
    /\ page' = page + 1
    /\ closes' = Append(closes, page + 1)
    /\ rendered' = Append(rendered, normalized_url)
    /\ outcome' = [kind |-> "goto_failed"]
    /\ UNCHANGED <<pc, config, results>>

\* lines 70-124, 128-129: page.goto() returns.  valid is the result of
\* _is_valid_page, relevance_score that of _check_relevance on the extracted
\* content, page_title that of _get_page_title, links that of _extract_links.
Render(valid, relevance_score, page_title, links) ==
    /\ Reached
    /\ LET page_data == [url |-> normalized_url,
                         title |-> page_title,
                         relevance_score |-> relevance_score]
           keep == Collects(valid, relevance_score, min_score)
           total == IF keep THEN Accumulate(cumulative_score, relevance_score)
                    ELSE cumulative_score
           stop == keep /\ ThresholdReached(total, cumulative_score_threshold)
           seen == visited \cup {normalized_url}
           new == IF Expands(valid, depth, max_depth, stop)
                  THEN NewEntries(links, seen, base_domain, depth)
                  ELSE <<>>
       IN  /\ collected_pages' = IF keep THEN Append(collected_pages, page_data)
                                 ELSE collected_pages
           /\ discovered' = IF keep THEN Append(discovered, page_data)
                            ELSE discovered
           /\ cumulative_score' = total
           /\ stop_crawling' = stop
           /\ visited' = seen
           /\ queue' = Tail(queue) \o new
    /\ page' = page + 1
    /\ closes' = Append(closes, page + 1)
    /\ rendered' = Append(rendered, normalized_url)
    /\ outcome' = IF valid THEN [kind |-> "valid", score |-> relevance_score]
                  ELSE [kind |-> "invalid"]
    /\ UNCHANGED <<pc, config>>

\* lines 54, 131-135: the loop ends, the list is sorted and returned
Return ==
    /\ pc = "loop"
    /\ ~LoopCondition(queue, stop_crawling)
    /\ collected_pages' = SortByScore(collected_pages)
    /\ pc' = "returned"
    /\ UNCHANGED <<config, visited, queue, stop_crawling, cumulative_score,
                   page, closes, rendered, outcome, discovered>>

Validities == {IsValidPage(doc) : doc \in Docs}
Titles == {GetPageTitle(in) : in \in TitleInputs}
\* what _extract_links can return, for each base URL a seed gives
LinkLists ==
    [base \in {BaseUrl(s) : s \in Seeds} |->
        {ExtractLinks(in, base) : in \in LinkInputs}]

\* the renderer serves another page load
RendererServes == Len(rendered) < MaxRenders

\* the step is one of a single call made directly on the WebScraper
Alone == UNCHANGED <<call_vars, client_vars, probe, text_vars>>

\* one call of crawl_with_score_criteria, every renderer call answered freely
Next ==
    \/ /\ \E s \in Seeds, d \in Depths, m \in MinScores, t \in Thresholds :
             Crawl(s, d, m, t)
       /\ Alone
    \/ SkipVisited /\ Alone
    \/ SkipDepth /\ Alone
    \/ SkipInvalidUrl /\ Alone
    \/ RendererServes /\ NewPageFails /\ Alone
    \/ RendererServes /\ GotoFails /\ Alone
    \/ /\ pc = "loop"
       /\ RendererServes
       /\ \E v \in Validities, s \in Scores, t \in Titles, l \in LinkLists[base_url] :
             Render(v, s, t, l)
       /\ Alone
    \/ Return /\ Alone

Spec == Init /\ [][Next]_vars

----------------------------------------------------------------------------
(* Properties *)

RECURSIVE SumScores(_)
SumScores(pages) ==
    IF pages = <<>> THEN 0
    ELSE pages[1].relevance_score + SumScores(Tail(pages))

Prefix(pages, k) == SubSeq(pages, 1, k)

WithScore(pages, v) == SelectSeq(pages, LAMBDA p : p.relevance_score = v)

\* a step of the crawl loop: one popped frontier entry
Iteration == pc = "loop" /\ pc' # "returned"

\* C1: every page record, during the crawl and in the returned list, has
\* relevance_score >= min_score.
C1_RecordsMeetMinScore ==
    \A i \in 1 .. Len(collected_pages) :
        collected_pages[i].relevance_score >= min_score

\* a valid page scoring below min_score has just been passed over while a
\* record is held
C1_Witness ==
    /\ outcome.kind = "valid"
    /\ outcome.score < min_score
    /\ collected_pages # <<>>

\* C2: cumulative_score is the sum of relevance_score over the records
\* appended so far, and it changes only together with an append.
C2_CumulativeIsSum ==
    /\ [](cumulative_score = SumScores(collected_pages))
    /\ [][cumulative_score' # cumulative_score
             => Len(collected_pages') = Len(collected_pages) + 1]_vars

\* two records are held and their scores add up to 2
C2_Witness == Len(collected_pages) >= 2 /\ cumulative_score >= 2

\* C3 as claimed: when the crawl returns, the frontier is empty, or
\* cumulative_score >= threshold and the records but the last discovered sum
\* to less than the threshold.
C3_FirstPrefixOrExhausted ==
    pc = "returned" =>
        \/ queue = <<>>
        \/ /\ cumulative_score >= cumulative_score_threshold
           /\ SumScores(Prefix(discovered, Len(discovered) - 1))
                 < cumulative_score_threshold

\* C3 as amended: when the crawl returns, the frontier is empty, or
\* cumulative_score >= threshold and the records in discovery order are the
\* first non-empty prefix reaching the threshold.
C3_FirstNonEmptyPrefixOrExhausted ==
    pc = "returned" =>
        \/ queue = <<>>
        \/ /\ cumulative_score >= cumulative_score_threshold
           /\ cumulative_score = SumScores(discovered)
           /\ discovered # <<>>
           /\ \A k \in 1 .. (Len(discovered) - 1) :
                 SumScores(Prefix(discovered, k)) < cumulative_score_threshold

\* returned on the threshold with two records and entries left in the frontier
C3_Witness ==
    /\ pc = "returned"
    /\ queue # <<>>
    /\ Len(discovered) >= 2

\* C4 as claimed: once cumulative_score >= threshold, nothing is dequeued,
\* rendered or enqueued.
C4_NothingAfterThreshold ==
    [][(pc = "loop" /\ cumulative_score >= cumulative_score_threshold)
          => (queue' = queue /\ rendered' = rendered /\ visited' = visited)]_vars

\* C4 as amended: once a record has been appended and cumulative_score >=
\* threshold, nothing is dequeued, rendered or enqueued; the page whose record
\* reaches the threshold enqueues none of its links.
C4_NothingAfterRecordReachesThreshold ==
    /\ [][(/\ pc = "loop"
           /\ discovered # <<>>
           /\ cumulative_score >= cumulative_score_threshold)
             => (queue' = queue /\ rendered' = rendered /\ visited' = visited)]_vars
    /\ [][(/\ Iteration
           /\ discovered' # discovered
           /\ cumulative_score' >= cumulative_score_threshold)
             => queue' = Tail(queue)]_vars

\* the threshold has been reached while entries wait in the frontier
C4_Witness ==
    /\ pc = "loop"
    /\ discovered # <<>>
    /\ cumulative_score >= cumulative_score_threshold
    /\ queue # <<>>

\* C5: no URL is handed to page.goto() twice in one crawl.
C5_NoUrlRenderedTwice ==
    \A i, j \in 1 .. Len(rendered) : i # j => rendered[i] # rendered[j]

\* C6: nothing deeper than max_depth is rendered or recorded, and with
\* max_depth < 0 nothing is rendered and the result is empty.
C6_DepthBounded ==
    /\ [][(rendered' # rendered \/ discovered' # discovered)
             => depth <= max_depth]_vars
    /\ [](max_depth < 0 => rendered = <<>> /\ collected_pages = <<>>)

\* the seed was dropped under a negative max_depth and the crawl returned
C6_Witness ==
    /\ pc = "returned"
    /\ max_depth < 0
    /\ outcome.kind = "skipped_depth"

\* C7: a target whose new_page() or goto() raises leaves the crawl running,
\* with the records and the cumulative score as they were and the next
\* frontier entry at the head.
C7_FailureIsNotFatal ==
    [][(Iteration /\ outcome'.kind \in {"new_page_failed", "goto_failed"})
          => /\ pc' = "loop"
             /\ collected_pages' = collected_pages
             /\ cumulative_score' = cumulative_score
             /\ queue' = Tail(queue)]_vars

\* C8: a rendered page classified invalid adds no record, leaves the
\* cumulative score and the stop flag alone, enqueues nothing, and the crawl
\* goes on.
C8_InvalidPageIsInert ==
    [][(Iteration /\ outcome'.kind = "invalid")
          => /\ pc' = "loop"
             /\ collected_pages' = collected_pages
             /\ cumulative_score' = cumulative_score
             /\ stop_crawling' = stop_crawling
             /\ queue' = Tail(queue)]_vars

\* an invalid page was rendered after the seed, and entries remain
C8_Witness ==
    /\ pc = "loop"
    /\ outcome.kind = "invalid"
    /\ Len(rendered) >= 2
    /\ queue # <<>>

\* C9: the returned list holds the recorded pages in descending score order,
\* equal scores in discovery order.
C9_SortedStable ==
    pc = "returned" =>
        /\ Len(collected_pages) = Len(discovered)
        /\ \A i \in 1 .. (Len(collected_pages) - 1) :
              collected_pages[i].relevance_score
                 >= collected_pages[i + 1].relevance_score
        /\ \A v \in Scores :
              WithScore(collected_pages, v) = WithScore(discovered, v)

\* returned with a tie between two pages and a reordering
C9_Witness ==
    /\ pc = "returned"
    /\ collected_pages # discovered
    /\ \E i, j \in 1 .. Len(discovered) :
          /\ i < j
          /\ discovered[i].relevance_score = discovered[j].relevance_score
          /\ discovered[i].url # discovered[j].url

\* C10: the crawl ends only by returning, and then only with the frontier
\* empty or the threshold reached.
C10_EndsByExhaustionOrThreshold ==
    pc \notin {"idle", "loop"} =>
        /\ pc = "returned"
        /\ (queue = <<>> \/ cumulative_score >= cumulative_score_threshold)

----------------------------------------------------------------------------
(* The two-level site: a seed page scoring below min_score that links, in  *)
(* this order, to three pages of its own origin scoring 80, 90 and 95,     *)
(* crawled with max_depth 1, min_score 60 and threshold 150.  The renderer *)
(* serves every page.                                                      *)

SiteSeeds == {"http://a.com/", "https://a.com/"}

SiteHrefs == <<"/p1", "/p2", "/p3">>

\* the scores _check_relevance can give the page at url
SiteScores(url) ==
    IF url = base_url \o "/p1" THEN {80}
    ELSE IF url = base_url \o "/p2" THEN {90}
    ELSE IF url = base_url \o "/p3" THEN {95}
    ELSE 0 .. 59

\* what _extract_links returns for the page at url
SiteLinks(url) ==
    IF url \in SiteSeeds
    THEN ExtractLinks([raises |-> FALSE, hrefs |-> SiteHrefs], base_url)
    ELSE <<>>

SiteNext ==
    \/ /\ \E s \in SiteSeeds : Crawl(s, 1, 60, 150)
       /\ Alone
    \/ /\ Running
       /\ \E s \in SiteScores(normalized_url), t \in Titles :
             Render(TRUE, s, t, SiteLinks(normalized_url))
       /\ Alone
    \/ Return /\ Alone

SiteSpec == Init /\ [][SiteNext]_vars

ScoresOf(pages) == [i \in 1 .. Len(pages) |-> pages[i].relevance_score]
UrlsOf(pages) == [i \in 1 .. Len(pages) |-> pages[i].url]

\* C11: on the two-level site the crawl never renders the third linked
\* page, and it returns, with the stop flag set after three page loads,
\* exactly the records of the second and the first linked page, scores
\* 90 then 80.
C11_StopsAfterSecondLinkedPage ==
    /\ ~InSeq(base_url \o "/p3", rendered)
    /\ pc = "returned" =>
          /\ ScoresOf(collected_pages) = <<90, 80>>
          /\ UrlsOf(collected_pages) = <<base_url \o "/p2", base_url \o "/p1">>
          /\ rendered[1] \in SiteSeeds
          /\ Tail(rendered) = <<base_url \o "/p1", base_url \o "/p2">>
          /\ stop_crawling

\* the crawl of the site has returned two records with the third linked
\* page still in the frontier
C11_Witness ==
    /\ pc = "returned"
    /\ Len(collected_pages) = 2
    /\ queue = << <<base_url \o "/p3", 1>> >>

----------------------------------------------------------------------------
(* Two calls of crawl_with_score_criteria on one WebScraper, one after the *)
(* other, with the same arguments and a renderer that answers a URL the    *)
(* same way whenever it is asked.                                          *)

\* the a[href] lists of the pages the renderer has
PageHrefs == {<<>>, <<"/", "x">>, <<"x", "http://b.com/">>, <<"#top", "/">>}

\* what the renderer can answer when asked for a page under base: a
\* failure of new_page or of goto, a page that is not valid, or a valid
\* page with its score, title and links
Responses(base) ==
    {[kind |-> "new_page_failed"], [kind |-> "goto_failed"],
     [kind |-> "page", valid |-> FALSE, score |-> 0, title |-> "", links |-> <<>>]}
        \cup {[kind |-> "page", valid |-> TRUE, score |-> s, title |-> t,
               links |-> ExtractLinks([raises |-> FALSE, hrefs |-> h], base)] :
                s \in Scores, t \in Titles, h \in PageHrefs}

\* the answers left for url: the one given before, or any
AnswersFor(url) ==
    IF url \in DOMAIN answers THEN {answers[url]} ELSE Responses(base_url)

Remember(url, a) ==
    answers' = IF url \in DOMAIN answers THEN answers ELSE answers @@ (url :> a)

\* a call starts: its entry in the log
Started(start_url) ==
    Append(runs, [start_url |-> start_url, end |-> "running",
                  rendered |-> <<>>, stop |-> FALSE, result |-> <<>>])

\* a call ends: what its caller and the renderer saw of it
Ended(how, result) ==
    [runs EXCEPT ![Len(runs)] =
        [start_url |-> @.start_url, end |-> how,
         rendered |-> rendered, stop |-> stop_crawling, result |-> result]]

\* the call is over: its frame is gone, so `page` is unbound again in the
\* next call; the values of the other locals stay until lines 45-49
\* overwrite them, and the histories of the call start over
CallOver ==
    /\ pc \in {"returned", "raised"}
    /\ Len(runs) = 1
    /\ pc' = "idle"
    /\ page' = 0
    /\ closes' = <<>>
    /\ rendered' = <<>>
    /\ outcome' = [kind |-> "none"]
    /\ discovered' = <<>>
    /\ UNCHANGED <<config, visited, queue, collected_pages, stop_crawling,
                   cumulative_score>>

TwiceNext ==
    \/ /\ runs = <<>>
       /\ \E s \in Seeds, d \in Depths, m \in MinScores, t \in Thresholds :
             Crawl(s, d, m, t) /\ runs' = Started(s)
       /\ UNCHANGED <<answers, client_vars, probe, text_vars>>
    \/ /\ Len(runs) = 1
       /\ Crawl(runs[1].start_url, max_depth, min_score, cumulative_score_threshold)
       /\ runs' = Started(runs[1].start_url)
       /\ UNCHANGED <<answers, client_vars, probe, text_vars>>
    \/ SkipVisited /\ Alone
    \/ SkipDepth /\ Alone
    \/ SkipInvalidUrl /\ Alone
    \/ /\ Running /\ RendererServes
       /\ \E a \in AnswersFor(normalized_url) :
             /\ a.kind = "new_page_failed"
             /\ Remember(normalized_url, a)
       /\ NewPageFails
       /\ runs' = IF page = 0 THEN Ended("raised", <<>>) ELSE runs
       /\ UNCHANGED <<client_vars, probe, text_vars>>
    \/ /\ Running /\ RendererServes
       /\ \E a \in AnswersFor(normalized_url) :
             /\ a.kind = "goto_failed"
             /\ Remember(normalized_url, a)
       /\ GotoFails
       /\ UNCHANGED <<runs, client_vars, probe, text_vars>>
    \/ /\ Running /\ RendererServes
       /\ \E a \in AnswersFor(normalized_url) :
             /\ a.kind = "page"
             /\ Remember(normalized_url, a)
             /\ Render(a.valid, a.score, a.title, a.links)
       /\ UNCHANGED <<runs, client_vars, probe, text_vars>>
    \/ /\ Return
       /\ runs' = Ended("returned", collected_pages')
       /\ UNCHANGED <<answers, client_vars, probe, text_vars>>
    \/ CallOver /\ Alone

TwiceSpec == Init /\ [][TwiceNext]_vars

\* C12: the second of two calls with the same arguments on the same
\* WebScraper, against a renderer that answers each URL as before, ends as
\* the first did: the same URLs were loaded in the same order, the stop
\* flag is the same and the same list is returned in the same order.
C12_SecondRunRepeatsFirst ==
    (Len(runs) = 2 /\ runs[2].end # "running") => runs[2] = runs[1]

\* a second call has returned after loading two pages and stopping on the
\* threshold with a record
C12_Witness ==
    /\ Len(runs) = 2
    /\ runs[2].end = "returned"
    /\ Len(runs[2].rendered) >= 2
    /\ runs[2].stop
    /\ runs[2].result # <<>>

----------------------------------------------------------------------------
(* Two calls of crawl_with_score_criteria on one WebScraper at the same    *)
(* time.  base_domain and base_url are fields of the WebScraper, so the    *)
(* other call writes the ones this call reads; its locals are its own.     *)

\* the last iteration of this call awaited the renderer (at the latest in
\* `await page.close()`), so another task has been able to run
Suspended ==
    /\ pc = "loop"
    /\ outcome.kind \in {"new_page_failed", "goto_failed", "valid", "invalid"}

\* lines 31-43, run by another call on the same WebScraper up to its first
\* await
OtherCrawl(start_url) ==
    /\ Suspended
    /\ base_domain' = BaseDomain(start_url)
    /\ base_url' = BaseUrl(start_url)
    /\ UNCHANGED <<pc, max_depth, min_score, cumulative_score_threshold,
                   visited, queue, results, page, closes, rendered, outcome>>

\* start_url of the other call
OtherSeeds == {"ftp://a.com/"}

SharedNext ==
    \/ /\ \E s \in Seeds, d \in Depths, m \in MinScores, t \in Thresholds :
             Crawl(s, d, m, t)
       /\ Alone
    \/ (\E s \in OtherSeeds : OtherCrawl(s)) /\ Alone
    \/ SkipVisited /\ Alone
    \/ SkipDepth /\ Alone
    \/ SkipInvalidUrl /\ Alone
    \/ RendererServes /\ NewPageFails /\ Alone
    \/ RendererServes /\ GotoFails /\ Alone
    \/ /\ pc = "loop"
       /\ RendererServes
       /\ \E v \in Validities, s \in Scores, t \in Titles, l \in LinkLists[base_url] :
             Render(v, s, t, l)
       /\ Alone
    \/ Return /\ Alone

SharedSpec == Init /\ [][SharedNext]_vars

\* C13: from the start of a crawl until it returns, base_domain and
\* base_url keep the values derived from that crawl's seed, also when
\* another crawl on the same WebScraper runs in between.
C13_OriginFixedDuringCrawl ==
    [][pc = "loop" => (base_domain' = base_domain /\ base_url' = base_url)]_vars

----------------------------------------------------------------------------
(* RufusClient.scrape_with_cumulative_score, client.py lines 55-92: the    *)
(* caller that acquires the browser and its context, runs one crawl on a   *)
(* new WebScraper and returns the crawl's list, or [] from its handler.    *)

AfterScope_NoScope(b) == b

\* client.py line 63: leaving `async with async_playwright()`, on any path,
\* stops Playwright and with it a browser still open
AfterScope(b) == IF b = "open" THEN "closed" ELSE b

\* the steps of the acquisition that can raise: entering async_playwright()
\* (line 63), chromium.launch (line 64), browser.new_context (line 67)
Stages == {"playwright", "launch", "new_context"}

\* client.py lines 56-70: keywords, WebScraper, Playwright, browser, context
Acquire ==
    /\ client_pc = "idle"
    /\ client_pc' = "acquired"
    /\ browser' = "open"
    /\ UNCHANGED client_result

\* client.py lines 63-70, 90-92: a step of the acquisition raises; only
\* new_context fails with the browser launched
AcquireFails(stage) ==
    /\ client_pc = "idle"
    /\ client_pc' = "done"
    /\ browser' = IF stage = "new_context" THEN AfterScope("open") ELSE "none"
    /\ client_result' = [kind |-> "returned", value |-> <<>>, via |-> "except"]

\* lines 75, 126-129: the task is cancelled while page.goto is awaited.
\* CancelledError is a BaseException from Python 3.8 on: `except Exception`
\* lets it pass, finally closes the page and the error leaves the function.
\* Under Python 3.7, which setup.py admits, it is an Exception and is logged
\* like a failed load.
Cancelled(propagates) ==
    /\ Reached
    /\ visited' = visited \cup {normalized_url}
    /\ queue' = Tail(queue)
    /\ page' = page + 1
    /\ closes' = Append(closes, page + 1)
    /\ rendered' = Append(rendered, normalized_url)
    /\ outcome' = [kind |-> "cancelled"]
    /\ pc' = IF propagates THEN "raised" ELSE "loop"
    /\ UNCHANGED <<config, results>>

\* client.py lines 81-88: the crawl returned; browser.close(), return
Finish ==
    /\ client_pc = "crawling"
    /\ pc = "returned"
    /\ client_pc' = "done"
    /\ browser' = AfterScope("closed")
    /\ client_result' = [kind |-> "returned", value |-> collected_pages, via |-> "return"]

\* client.py lines 73, 90-92: the crawl raised.  The scope is left; an
\* Exception is logged and [] returned, a CancelledError goes on to the caller
Fails ==
    /\ client_pc = "crawling"
    /\ pc = "raised"
    /\ client_pc' = "done"
    /\ browser' = AfterScope(browser)
    /\ client_result' =
          IF outcome.kind = "cancelled"
          THEN [kind |-> "raised", value |-> <<>>, via |-> "propagated"]
          ELSE [kind |-> "returned", value |-> <<>>, via |-> "except"]

\* the step is one of the client alone
ClientOnly == UNCHANGED <<crawl_vars, call_vars, probe, text_vars>>

ClientNext ==
    \/ Acquire /\ ClientOnly
    \/ (\E stage \in Stages : AcquireFails(stage)) /\ ClientOnly
    \/ /\ client_pc = "acquired"
       /\ \E s \in Seeds, d \in Depths, m \in MinScores, t \in Thresholds :
             Crawl(s, d, m, t)
       /\ client_pc' = "crawling"
       /\ UNCHANGED <<browser, client_result, call_vars, probe, text_vars>>
    \/ SkipVisited /\ Alone
    \/ SkipDepth /\ Alone
    \/ SkipInvalidUrl /\ Alone
    \/ RendererServes /\ NewPageFails /\ Alone
    \/ RendererServes /\ GotoFails /\ Alone
    \/ RendererServes /\ (\E propagates \in BOOLEAN : Cancelled(propagates)) /\ Alone
    \/ /\ pc = "loop"
       /\ RendererServes
       /\ \E v \in Validities, s \in Scores, t \in Titles, l \in LinkLists[base_url] :
             Render(v, s, t, l)
       /\ Alone
    \/ Return /\ Alone
    \/ Finish /\ ClientOnly
    \/ Fails /\ ClientOnly

ClientSpec == Init /\ [][ClientNext]_vars

\* C14: when scrape_with_cumulative_score is over, whether the crawl
\* returned, the crawl raised or the acquisition raised, no browser it
\* launched is still open.
C14_BrowserClosedOnEveryExit == client_pc = "done" => browser # "open"

\* the crawl raised an Exception, the handler returned [] and the browser
\* is closed
C14_Witness ==
    /\ client_pc = "done"
    /\ pc = "raised"
    /\ client_result.via = "except"
    /\ browser = "closed"

\* C15: when scrape_with_cumulative_score is over and the acquisition had
\* failed (the crawl was never started), it has returned [] from its
\* handler; and it has ended otherwise than by its normal return only if
\* the acquisition had failed.
C15_OnlyAcquisitionFailureIsAbnormal ==
    client_pc = "done" =>
        /\ pc = "idle" =>
              client_result = [kind |-> "returned", value |-> <<>>, via |-> "except"]
        /\ client_result.via # "return" => pc = "idle"

\* C16: once a cancellation has been raised in a running crawl, the crawl
\* does not raise, and scrape_with_cumulative_score ends by returning the
\* records collected so far in sorted order.
C16_CancellationReturnsPartial ==
    outcome.kind = "cancelled" =>
        /\ pc # "raised"
        /\ client_pc = "done" =>
              client_result = [kind |-> "returned",
                               value |-> SortByScore(discovered),
                               via |-> "return"]

----------------------------------------------------------------------------
(* _normalize_url called on its own, lines 166-187, on a WebScraper whose  *)
(* base URL is "" (no crawl yet) or the one a crawl has derived.           *)

\* href arguments: one or more for each branch, and near misses of the
\* prefixes (another case, another scheme, a single slash after the colon)
ProbeHrefs ==
    {"", "#", "#top", "javascript:void(0)", "mailto:a@b.c", "tel:123",
     "//cdn.com/x", "///x", "/", "/p", "x", "p/q", "?q=1",
     "http://a.com/x", "https://b.com/", "ftp://a.com/x",
     "HTTP://a.com/", "Javascript:x", "http:/x", " #top"}

\* a call self._normalize_url(url)
NormalizeCall(url) ==
    /\ probe' = [method |-> "_normalize_url", url |-> url, base |-> base_url,
                 result |-> NormalizeUrl(url, base_url)]
    /\ UNCHANGED <<crawl_vars, call_vars, client_vars, text_vars>>

NormalizeNext ==
    \/ /\ \E s \in Seeds, d \in Depths, m \in MinScores, t \in Thresholds :
             Crawl(s, d, m, t)
       /\ Alone
    \/ \E url \in ProbeHrefs : NormalizeCall(url)

NormalizeSpec == Init /\ [][NormalizeNext]_vars

\* the five cases of the normaliser, for href h, base URL B and result r
NormalizeTable(h, B, r) ==
    LET dropped == h = "" \/ StartsWithAny(h, {"javascript:", "mailto:", "tel:", "#"})
        absolute == StartsWithAny(h, {"http://", "https://"})
        double == StartsWith(h, "//")
        single == StartsWith(h, "/") /\ ~double
    IN  /\ dropped => r = ""
        /\ double => r = "https:" \o h
        /\ single => r = B \o h
        /\ absolute => r = h
        /\ ~(dropped \/ double \/ single \/ absolute) => r = B \o "/" \o h

\* C17: _normalize_url(h) is "" for an empty h and for one starting with
\* javascript:, mailto:, tel: or #; "https:" + h for h starting with //;
\* B + h for h starting with a single /; h itself for h starting with
\* http:// or https://; B + "/" + h for every other h.  The call changes no
\* field of the WebScraper and no state of a crawl.
C17_NormalizeUrlTable ==
    /\ [](probe.method = "_normalize_url" =>
             NormalizeTable(probe.url, probe.base, probe.result))
    /\ [][probe' # probe => UNCHANGED crawl_vars]_vars

\* a protocol-relative href has been normalised under the base URL of a crawl
C17_Witness ==
    /\ probe.method = "_normalize_url"
    /\ probe.url = "//cdn.com/x"
    /\ probe.base = "http://a.com"
    /\ probe.result = "https://cdn.com/x"

----------------------------------------------------------------------------
(* _check_relevance, lines 259-307 *)

Min(S) == CHOOSE x \in S : \A y \in S : x <= y
Max(S) == CHOOSE x \in S : \A y \in S : x >= y

\* the indices at which sub occurs in s
Occurrences(s, sub) ==
    {i \in 1 .. (Len(s) - Len(sub) + 1) : SubSeq(s, i, i + Len(sub) - 1) = sub}

\* how many of the matches starting at the indices P, each n long, a scan
\* from index `from` takes: the leftmost one, then on from its end (an empty
\* match moves the scan by one).  str.count and re.findall both scan so.
RECURSIVE CountFrom(_, _, _)
CountFrom(P, from, n) ==
    LET later == {i \in P : i >= from}
    IN  IF later = {} THEN 0
        ELSE 1 + CountFrom(P, Min(later) + (IF n = 0 THEN 1 ELSE n), n)

\* \w of the re module on lower-case text
WordChars ==
    Letters \cup {"0", "1", "2", "3", "4", "5", "6", "7", "8", "9", "_"}

IsWordAt(s, i) == i \in 1 .. Len(s) /\ SubSeq(s, i, i) \in WordChars

\* \b between s[i - 1] and s[i]
BoundaryAt(s, i) == IsWordAt(s, i - 1) # IsWordAt(s, i)

\* what str.strip() removes at both ends
Whitespace == {" ", "\t", "\r", "\n", "\f"}

\* content.split('\n'): the index each line starts at, and where the line
\* starting at index a ends, given the indices N of the newlines
LineStarts(N) == {1} \cup {n + 1 : n \in N}
LineEnd(s, N, a) ==
    LET next == {n \in N : n >= a}
    IN  IF next = {} THEN Len(s) ELSE Min(next) - 1

\* lines 290-294: the lines shorter than 100 characters in which, stripped,
\* the keyword occurs; occ are the keyword's occurrences in the lower-cased
\* text, n its length
HeadingLines(s, occ, n) ==
    LET N == {i \in 1 .. Len(s) : SubSeq(s, i, i) = "\n"}
        Kept(a) == {i \in a .. LineEnd(s, N, a) : SubSeq(s, i, i) \notin Whitespace}
    IN  {a \in LineStarts(N) :
            /\ LineEnd(s, N, a) - a + 1 < 100
            /\ IF n = 0 THEN TRUE
               ELSE /\ Kept(a) # {}
                    /\ \E i \in occ : Min(Kept(a)) <= i /\ i + n - 1 <= Max(Kept(a))}

\* an introduction bonus for a keyword anywhere in the text
KeywordScore_IntroAnywhere(content_lower, keyword) ==
    LET keyword_lower == Lower(keyword)
        n == Len(keyword_lower)
        occ == Occurrences(content_lower, keyword_lower)
        exact == {i \in occ : BoundaryAt(content_lower, i)
                                /\ BoundaryAt(content_lower, i + n)}
    IN  CountFrom(occ, 1, n) * 2 + CountFrom(exact, 1, n) * 3
            + (IF occ # {} THEN 10 ELSE 0)
            + 15 * Cardinality(HeadingLines(content_lower, occ, n))

\* lines 272-294: what one keyword adds to base_score
KeywordScore(content_lower, keyword) ==
    LET keyword_lower == Lower(keyword)
        n == Len(keyword_lower)
        occ == Occurrences(content_lower, keyword_lower)
        count == CountFrom(occ, 1, n)
        exact_matches ==
            CountFrom({i \in occ : BoundaryAt(content_lower, i)
                                     /\ BoundaryAt(content_lower, i + n)}, 1, n)
        intro == \E i \in occ : i + n - 1 <= 500
    IN  count * 2 + exact_matches * 3 + (IF intro THEN 10 ELSE 0)
            + 15 * Cardinality(HeadingLines(content_lower, occ, n))

Accrue_Overwrite(base_score, amount) == amount

\* lines 276-294: base_score += ...
Accrue(base_score, amount) == base_score + amount

\* lines 268-294: the loop over self.keywords
RECURSIVE ScoreKeywords(_, _, _)
ScoreKeywords(content_lower, keywords, base_score) ==
    IF keywords = <<>> THEN base_score
    ELSE ScoreKeywords(content_lower, Tail(keywords),
                       Accrue(base_score, KeywordScore(content_lower, Head(keywords))))

\* the totals below 400 whose product with the double 0.7 lies just under
\* the whole number 7n/10, so that int() gives one less
FloatShort == {90, 170, 180, 330, 340, 350, 360}

\* int(n * 0.7), int(n * 1.2), int(n * 1.5) in double arithmetic, n < 400
Times07(n) == IF n \in FloatShort THEN (7 * n) \div 10 - 1 ELSE (7 * n) \div 10
Times12(n) == (12 * n) \div 10
Times15(n) == (15 * n) \div 10

\* an adjustment whose bonuses exclude each other
LengthAdjust_OneBonus(base_score, content_length) ==
    IF content_length < 500 THEN Times07(base_score)
    ELSE IF content_length > 3000 THEN Times15(base_score)
    ELSE IF content_length > 1000 THEN Times12(base_score)
    ELSE base_score

\* lines 297-305
LengthAdjust(base_score, content_length) ==
    LET short == IF content_length < 500 THEN Times07(base_score) ELSE base_score
        long == IF content_length > 1000 THEN Times12(short) ELSE short
    IN  IF content_length > 3000 THEN Times15(long) ELSE long

TooShort_OnlyEmpty(content) == content = ""

\* line 264: not content or len(content) < 100
TooShort(content) == content = "" \/ Len(content) < 100

CheckRelevance(content, keywords) ==
    IF TooShort(content) THEN 0
    ELSE LengthAdjust(ScoreKeywords(Lower(content), keywords, 0), Len(content))

----------------------------------------------------------------------------
(* _check_relevance called on its own: a WebScraper made with a keyword    *)
(* list, and the text of a page.                                           *)

\* n filler characters, none of which is part of a keyword
RECURSIVE Pad(_)
Pad(n) ==
    IF n = 0 THEN ""
    ELSE IF n % 2 = 0 THEN LET half == Pad(n \div 2) IN half \o half
    ELSE "z" \o Pad(n - 1)

\* a text of len characters: filler, with mid after the first pre characters
Text(pre, mid, len) == Pad(pre) \o mid \o Pad(len - pre - Len(mid))

\* keyword material: none; a word of its own; twice inside longer words; a
\* short line of its own; several spellings and neighbours; three keywords
\* in different numbers
ProbeMids ==
    {"", " burger ", "xburgerx xburgerx", "\nBurger menu\n",
     " fries, BURGER and burger-fries ",
     " burger fries menu burger menu burger ",
     "\n menu \n"}

\* text lengths on both sides of each limit of lines 264 and 298-305
ProbeLengths == {99, 100, 499, 500, 1000, 1001, 3000, 3001}

\* four short lines holding the keyword, in a text of 128 characters
HeadingsText == "burger\nburger\nburger\nburger\n" \o Pad(100)

ProbeTexts ==
    {"", HeadingsText}
        \cup {Text(pre, mid, len) :
                pre \in {0}, mid \in ProbeMids, len \in ProbeLengths}
        \cup {Text(pre, mid, len) :
                pre \in {600}, mid \in ProbeMids, len \in {l \in ProbeLengths : l >= 1000}}

\* self.keywords
ProbeKeywords ==
    {<<>>, <<"burger">>, <<"Fries">>, <<"burger", "fries">>,
     <<"menu", "burger">>, <<"fries", "burger", "menu">>, <<" menu">>}

\* a WebScraper made with a keyword list, about to score a text
ScoreInit ==
    /\ Constructed
    /\ \E content \in ProbeTexts, keywords \in ProbeKeywords :
          /\ probe = [method |-> "call _check_relevance", content |-> content,
                      keywords |-> keywords]
          /\ self_keywords = keywords
    /\ contents = <<>>

\* the call self._check_relevance(content) returns
CheckRelevanceCall ==
    /\ probe.method = "call _check_relevance"
    /\ probe' = [method |-> "_check_relevance", content |-> probe.content,
                 keywords |-> probe.keywords,
                 result |-> CheckRelevance(probe.content, probe.keywords)]
    /\ UNCHANGED <<crawl_vars, call_vars, client_vars, text_vars>>

ScoreNext == CheckRelevanceCall

ScoreSpec == ScoreInit /\ [][ScoreNext]_vars

\* the call probe records is one of _check_relevance
Scored == probe.method = "_check_relevance"

\* the total over all keywords before the length adjustment
Total == ScoreKeywords(Lower(probe.content), probe.keywords, 0)

\* C18, as stated: the total is multiplied once by the factor of the
\* text's length (0.7 below 500; 1 from 500 to 1000; 1.2 above 1000; 1.2 and
\* 1.5, that is 1.8, above 3000) and the score is the product's integer part.
C18_AdjustedOnceTruncatedOnce ==
    (Scored /\ ~TooShort(probe.content)) =>
        LET len == Len(probe.content)
        IN  probe.result =
               IF len < 500 THEN (7 * Total) \div 10
               ELSE IF len > 3000 THEN (18 * Total) \div 10
               ELSE IF len > 1000 THEN (12 * Total) \div 10
               ELSE Total

\* C18, amended: the adjustment is applied once to the total over all
\* keywords, and every multiplication is truncated at once: int(total * 0.7)
\* below 500 characters, the total itself from 500 to 1000, int(total * 1.2)
\* above 1000, and int(int(total * 1.2) * 1.5) above 3000, each product
\* taken in double arithmetic.
C18_AdjustedTruncatedAtEachFactor ==
    (Scored /\ ~TooShort(probe.content)) =>
        LET len == Len(probe.content)
        IN  probe.result =
               IF len < 500 THEN Times07(Total)
               ELSE IF len > 3000 THEN Times15(Times12(Total))
               ELSE IF len > 1000 THEN Times12(Total)
               ELSE Total

\* a text of more than 3000 characters with total 4 has scored 6
C18_Witness ==
    /\ Scored
    /\ Len(probe.content) > 3000
    /\ Total = 4
    /\ probe.result = 6

\* C19: _check_relevance gives 0 for the empty text and for every text of
\* fewer than 100 characters, whatever keywords it holds.
C19_ShortTextScoresZero ==
    (Scored /\ Len(probe.content) < 100) => probe.result = 0

\* a text of 99 characters whose keywords add up to a positive total has
\* scored 0
C19_Witness ==
    /\ Scored
    /\ Len(probe.content) = 99
    /\ Total > 0
    /\ probe.result = 0

\* the orders a list can be put in
Orders(seq) ==
    LET n == Len(seq)
        bijections == {f \in [1 .. n -> 1 .. n] : \A i, j \in 1 .. n : f[i] = f[j] => i = j}
    IN  {[i \in 1 .. n |-> seq[f[i]]] : f \in bijections}

\* C20: the score is an integer >= 0, and the same for every order of the
\* keyword list.
C20_ScoreIgnoresKeywordOrder ==
    Scored =>
        /\ probe.result \in Nat
        /\ \A keywords \in Orders(probe.keywords) :
              CheckRelevance(probe.content, keywords) = probe.result

\* a text in which three keywords add different amounts has a positive score
C20_Witness ==
    /\ Scored
    /\ Len(probe.keywords) = 3
    /\ probe.result > 0
    /\ LET content_lower == Lower(probe.content)
       IN  \A i, j \in 1 .. 3 :
              i # j => KeywordScore(content_lower, probe.keywords[i])
                          # KeywordScore(content_lower, probe.keywords[j])


----------------------------------------------------------------------------
(* A crawl whose relevance scores are the ones _check_relevance gives the  *)
(* text _extract_content returned for the page.                            *)

\* the keyword lists the WebScraper is made with
ContentKeywords == {<<>>, <<"burger">>, <<"Fries", "burger">>}

\* what _extract_content can return: nothing, a text under 100 characters
\* that names a keyword, and longer texts with and without keywords
ContentTexts ==
    {"", "burger" \o Pad(20), Pad(120), Text(10, " BURGER ", 120),
     Text(30, " fries\nmenu ", 600)}

ContentFloors == {0, 1, 20}

ContentThresholds == {0, 40}

\* lines 17-20 with a keyword list
ContentInit ==
    /\ Constructed
    /\ probe = [method |-> "none"]
    /\ self_keywords \in ContentKeywords
    /\ contents = <<>>

\* lines 72-129 with content = _extract_content(page) at line 80 and
\* relevance_score = _check_relevance(content) at line 83; page_data holds
\* that content (line 94)
RenderContent(valid, content, page_title, links) ==
    LET relevance_score == CheckRelevance(content, self_keywords)
    IN  /\ Render(valid, relevance_score, page_title, links)
        /\ contents' = IF Collects(valid, relevance_score, min_score)
                       THEN Append(contents, content)
                       ELSE contents
        /\ UNCHANGED self_keywords

ContentNext ==
    \/ /\ \E m \in ContentFloors, t \in ContentThresholds :
             Crawl("http://a.com/", 2, m, t)
       /\ Alone
    \/ SkipVisited /\ Alone
    \/ /\ Running
       /\ RendererServes
       /\ \E v \in BOOLEAN, c \in ContentTexts, l \in PageHrefs :
             RenderContent(v, c, "t", ExtractLinks([raises |-> FALSE, hrefs |-> l],
                                                   base_url))
       /\ UNCHANGED <<call_vars, client_vars, probe>>
    \/ Return /\ Alone

ContentSpec == ContentInit /\ [][ContentNext]_vars

\* the text names one of self.keywords, whatever the case of either
NamesKeyword(content) ==
    \E i \in 1 .. Len(self_keywords) :
        Contains(Lower(content), Lower(self_keywords[i]))

\* C21: with min_score >= 1, the content of every collected record (record
\* i of the append history has content contents[i], and the returned list
\* is a reordering of that history) contains at least one keyword as a
\* case-insensitive substring
C21_CollectedContentNamesKeyword ==
    min_score >= 1 =>
        /\ Len(contents) = Len(discovered)
        /\ \A i \in 1 .. Len(contents) : NamesKeyword(contents[i])

\* a returned non-empty result under min_score = 1 whose keyword match
\* needs the case folded
C21_Witness ==
    /\ pc = "returned"
    /\ min_score = 1
    /\ Len(collected_pages) >= 1
    /\ Len(collected_pages) = Len(contents)
    /\ \E i \in 1 .. Len(contents) :
          /\ NamesKeyword(contents[i])
          /\ \A j \in 1 .. Len(self_keywords) :
                ~Contains(contents[i], self_keywords[j])


----------------------------------------------------------------------------
(* The frontier *)

\* the entries a page with the extracted links l adds behind the queue: the
\* links not in seen that contain the base domain, in the order of l, then
\* the other links not in seen, in the order of l, one level deeper
Behind(l, seen, level) ==
    LET fresh(u) == u \notin seen
        home(u) == fresh(u) /\ Contains(u, base_domain)
        away(u) == fresh(u) /\ ~Contains(u, base_domain)
        urls == SelectSeq(l, home) \o SelectSeq(l, away)
    IN  [i \in 1 .. Len(urls) |-> <<urls[i], level + 1>>]

\* C22: the frontier starts as <<(start_url, 0)>>; every iteration removes
\* the head and leaves the other entries in their order; what a page adds
\* goes behind them: its same-origin links in extraction order, then its
\* other links, each one level below the page
C22_FrontierIsFifo ==
    [][ /\ (pc = "idle" /\ pc' = "loop")
            => \E s \in Seeds : queue' = << <<s, 0>> >>
        /\ Iteration
            => /\ queue # <<>>
               /\ \E l \in LinkLists[base_url] \cup {<<>>} :
                     queue' = Tail(queue) \o Behind(l, visited', queue[1][2])
      ]_vars

\* the second page rendered was the first page's same-origin link, taken
\* before the external link found with it, and what it added at depth 2
\* stands behind that link
C22_Witness ==
    /\ pc = "loop"
    /\ Len(rendered) = 2
    /\ Contains(rendered[2], base_domain)
    /\ Len(queue) = 2
    /\ ~Contains(queue[1][1], base_domain)
    /\ queue[1][2] = 1
    /\ queue[2][2] = 2


\* the renderer's answer for the target of this iteration is a page that
\* _is_valid_page accepts
ValidPageLoaded ==
    /\ Iteration
    /\ Reached
    /\ normalized_url \in DOMAIN answers'
    /\ answers'[normalized_url].kind = "page"
    /\ answers'[normalized_url].valid

\* C23: a valid page loaded above the depth limit, with the cumulative
\* score still under the threshold after it, puts all its links that are
\* not visited behind the queue, whatever its own score; an iteration at
\* the depth limit or below it adds nothing to the queue
C23_ExpandsUnlessDeepOrStopped ==
    [][ /\ (/\ ValidPageLoaded
            /\ depth < max_depth
            /\ cumulative_score' < cumulative_score_threshold)
            => queue' = Tail(queue)
                          \o Behind(answers'[normalized_url].links, visited', depth)
        /\ (Iteration /\ queue # <<>> /\ depth >= max_depth)
            => queue' = Tail(queue)
      ]_vars

\* the seed page scored under min_score, is not in the result, and its
\* links are queued
C23_Witness ==
    /\ pc = "loop"
    /\ Len(rendered) = 1
    /\ outcome.kind = "valid"
    /\ outcome.score < min_score
    /\ collected_pages = <<>>
    /\ queue # <<>>


\* the positions of queue' that hold what this iteration added
Added == Len(queue) .. Len(queue')

\* C24: no entry added to the queue holds a URL that is in visited when
\* its page is expanded (the page's own URL included), and none holds the
\* empty string that _normalize_url gives for a link it rejects
C24_AddedLinksAreNewAndNormalised ==
    [][ Iteration =>
            \A i \in Added : /\ queue'[i][1] \notin visited'
                             /\ queue'[i][1] # ""
      ]_vars

\* the seed page linked to itself and to another page: only the other
\* page is queued
C24_Witness ==
    /\ pc = "loop"
    /\ Len(rendered) = 1
    /\ rendered[1] \in DOMAIN answers
    /\ answers[rendered[1]].kind = "page"
    /\ \E i \in 1 .. Len(answers[rendered[1]].links) :
          answers[rendered[1]].links[i] \in visited
    /\ queue # <<>>
    /\ \A j \in 1 .. Len(queue) : queue[j][1] \notin visited


\* the target at the head of the queue is one the loop passes over
PassedOver ==
    \/ queue[1][1] \in visited
    \/ queue[1][2] > max_depth
    \/ NormalizeUrl(queue[1][1], base_url) = ""

\* C25: an iteration whose target is already visited, deeper than
\* max_depth, or without a normalised URL asks the renderer for nothing
\* and changes only the queue: visited (so a target without normalised URL
\* is not added to it), the records, the cumulative score and the stop
\* flag stay as they were
C25_SkipChangesOnlyQueue ==
    [][ (Iteration /\ queue # <<>> /\ PassedOver)
            => /\ queue' = Tail(queue)
               /\ UNCHANGED <<visited, collected_pages, discovered,
                              cumulative_score, stop_crawling,
                              rendered, page, closes>>
      ]_vars

\* the seed had no normalised URL: nothing was loaded, visited is empty
C25_Witness ==
    /\ outcome.kind = "skipped_url"
    /\ queue = <<>>
    /\ visited = {}
    /\ rendered = <<>>
    /\ page = 0


\* C26: a step that obtains a page closes that page, once, within the
\* step (so before the next entry is dequeued), and a step that obtains no
\* page invokes no close
C26_EachPageClosedOnceInItsIteration ==
    [][ IF page' # page
        THEN closes' = Append(closes, page')
        ELSE closes' = closes
      ]_vars


----------------------------------------------------------------------------
(* The four terms of the score *)

\* the lines of s (given by the index each starts at) shorter than 100
\* characters in which one of the occurrences occ, each n long, lies
ShortLinesHolding(s, occ, n) ==
    LET N == {i \in 1 .. Len(s) : SubSeq(s, i, i) = "\n"}
    IN  {a \in LineStarts(N) :
            /\ LineEnd(s, N, a) - a + 1 < 100
            /\ \E i \in occ : a <= i /\ i + n - 1 <= LineEnd(s, N, a)}

\* 2 for each occurrence of the keyword counted without overlap, 3 for each
\* of its matches between word boundaries, 10 if it occurs within the
\* first 500 characters, 15 for each of the given lines
FourTerms(s, keyword, lines) ==
    LET n == Len(keyword)
        occ == Occurrences(s, keyword)
        bounded == {i \in occ : BoundaryAt(s, i) /\ BoundaryAt(s, i + n)}
        early == {i \in occ : i + n - 1 <= 500}
    IN  2 * CountFrom(occ, 1, n) + 3 * CountFrom(bounded, 1, n)
            + (IF early # {} THEN 10 ELSE 0) + 15 * Cardinality(lines)

\* the sum over the keywords, the lines of a keyword being those that hold
\* it as they stand
RECURSIVE SumAsStated(_, _)
SumAsStated(s, keywords) ==
    IF keywords = <<>> THEN 0
    ELSE LET k == Lower(Head(keywords))
         IN  FourTerms(s, k, ShortLinesHolding(s, Occurrences(s, k), Len(k)))
                + SumAsStated(s, Tail(keywords))

\* the sum over the keywords, the lines of a keyword being those that hold
\* it once their leading and trailing whitespace is removed
RECURSIVE SumOverStrippedLines(_, _)
SumOverStrippedLines(s, keywords) ==
    IF keywords = <<>> THEN 0
    ELSE LET k == Lower(Head(keywords))
         IN  FourTerms(s, k, HeadingLines(s, Occurrences(s, k), Len(k)))
                + SumOverStrippedLines(s, Tail(keywords))

\* the text scored is one of 500 to 1000 characters
MiddleLength == Scored /\ Len(probe.content) \in 500 .. 1000

\* C27, as stated: the score of a text of 500 to 1000 characters is the sum
\* over the keywords of 2 per occurrence, 3 per word-boundary match, 10 for
\* an occurrence within the first 500 characters and 15 per line shorter
\* than 100 characters that contains the keyword.
C27_ScoreIsSumAsStated ==
    MiddleLength
        => probe.result = SumAsStated(Lower(probe.content), probe.keywords)

\* C27, amended: the same sum, with 15 per line shorter than 100 characters
\* that contains the keyword after the line's leading and trailing
\* whitespace is removed.
C27_ScoreIsSumOverStrippedLines ==
    MiddleLength
        => probe.result = SumOverStrippedLines(Lower(probe.content), probe.keywords)

\* a text of 600 characters scored 12 for a keyword that begins with a
\* space: one occurrence, within the first 500 characters, in a short line
\* that holds it only with the line's leading space
C27_Witness ==
    /\ MiddleLength
    /\ probe.keywords = <<" menu">>
    /\ probe.result = 12
    /\ SumAsStated(Lower(probe.content), probe.keywords) = 27


----------------------------------------------------------------------------
(* Breadth first *)

\* the queue's depths never fall from head to tail, span at most two
\* adjacent levels, and lie between 0 and max(0, max_depth)
LevelOrder ==
    \A i \in 1 .. Len(queue) :
        /\ i < Len(queue) => queue[i][2] <= queue[i + 1][2]
        /\ queue[i][2] <= queue[1][2] + 1
        /\ queue[i][2] >= 0
        /\ queue[i][2] <= Max({0, max_depth})

\* C28: LevelOrder holds in every state, and the target of an iteration is
\* never at a lower depth than the target of the iteration before
C28_BreadthFirst ==
    /\ LevelOrder
    /\ [][ /\ LevelOrder'
           /\ (pc = "loop" /\ queue # <<>> /\ queue' # <<>>)
                => queue'[1][2] >= queue[1][2]
         ]_vars

\* two pages loaded under max_depth = 2; the queue holds a link of the
\* first at depth 1 and, behind it, a link of the second at depth 2
C28_Witness ==
    /\ pc = "loop"
    /\ max_depth = 2
    /\ Len(rendered) >= 2
    /\ Len(queue) >= 2
    /\ queue[1][2] = 1
    /\ queue[Len(queue)][2] = 2


----------------------------------------------------------------------------
(* Normalising twice *)

\* the base URLs lines 34-43 derive from the seeds
DerivedBases == {BaseUrl(s) : s \in Seeds}

\* C29: under a base URL derived from a seed, a non-empty result of
\* _normalize_url is its own normalisation, so that the string queued for a
\* link (line 250), the string tested against visited (line 58) and the
\* string added to visited (lines 65-70) are one string
C29_NormalizeUrlIdempotent ==
    (/\ probe.method = "_normalize_url"
     /\ probe.base \in DerivedBases
     /\ probe.result # "")
        => NormalizeUrl(probe.result, probe.base) = probe.result

====
